---- MODULE Spec2Model ----
(***************************************************************************)
(* Model of the Flip 7 game engine: CardDeckService (draw pile),           *)
(* GameLogicService (bust / second chance / score rules) and the App       *)
(* component (turn state machine, deferred callbacks, match coordinator).  *)
(*                                                                         *)
(* Cards are held by id; type and value of an id are those assigned by     *)
(* CardDeckService.initializeDeck.  setTimeout callbacks are entries of    *)
(* `timers`, kept in creation order with the time left until they run;     *)
(* time advances in steps of TickMs and a callback runs when its time has  *)
(* elapsed, earlier-created callbacks first.  Math.random is a `tape`      *)
(* giving the index chosen at each step of the Fisher-Yates loop.          *)
(* Popup visibility signals (pure presentation) are not part of the model; *)
(* the callbacks that hide a popup and then continue the turn are.         *)
(***************************************************************************)
EXTENDS Integers, Sequences, FiniteSets, TLC

VARIABLES players, currentPlayerIndex, currentRoundScore, drawnCards,
          discardPile, deck, deckCount, isTurnActive, hasBusted,
          isFlippingThree, flipThreeCount, showStartModal, showEndModal,
          winner, timers, inputs

vars == <<players, currentPlayerIndex, currentRoundScore, drawnCards,
          discardPile, deck, deckCount, isTurnActive, hasBusted,
          isFlippingThree, flipThreeCount, showStartModal, showEndModal,
          winner, timers, inputs>>

----------------------------------------------------------------------------
(* Program constants (app.constants.ts) *)

POPUP_DISPLAY_DURATION_MS == 2000
POPUP_SHORT_DURATION_MS == 1500
AUTO_FLIP_STAGGER_DELAY_MS == 500
MIN_PLAYERS == 3
MAX_PLAYERS == 18
MAX_HAND_SIZE == 7
DECK_SIZE == 94
WINNING_SCORE == 200
HIGHEST_NUMBER == 12
SPECIAL_COPIES == 3

(* Bounds of the model *)

\* number of user inputs (roster edit, start, draw, end turn, return to
\* start) accepted in one behaviour
MaxInputs == 6

\* inputs left in the runs that start from a roster under edit
MaxRosterEdits == 3

\* calls of CardDeckService.drawCard in the runs that drive the service alone
MaxCalls == 95

\* granularity of time: the greatest common divisor of the three delays
TickMs == AUTO_FLIP_STAGGER_DELAY_MS

----------------------------------------------------------------------------
(* Card model: CardDeckService.initializeDeck / createCard *)

RECURSIVE NumberCardsFrom(_)
NumberCardsFrom(value) ==
    IF value < 1 THEN <<>>
    ELSE [count \in 1..value |-> [type |-> "NUMBER", value |-> value]]
         \o NumberCardsFrom(value - 1)

AdditionValues == <<2, 4, 6, 8, 10>>

\* variant of UnnumberedCards: the single 0 card is not created
UnnumberedCardsNoZero ==
    NumberCardsFrom(HIGHEST_NUMBER)
    \o [k \in 1..Len(AdditionValues) |-> [type |-> "ADDITION", value |-> AdditionValues[k]]]
    \o << [type |-> "MULTIPLIER", value |-> 2] >>
    \o [k \in 1..SPECIAL_COPIES |-> [type |-> "FREEZE", value |-> 0]]
    \o [k \in 1..SPECIAL_COPIES |-> [type |-> "FLIP_THREE", value |-> 0]]
    \o [k \in 1..SPECIAL_COPIES |-> [type |-> "SECOND_CHANCE", value |-> 0]]

UnnumberedCards ==
    NumberCardsFrom(HIGHEST_NUMBER)
    \o << [type |-> "NUMBER", value |-> 0] >>
    \o [k \in 1..Len(AdditionValues) |-> [type |-> "ADDITION", value |-> AdditionValues[k]]]
    \o << [type |-> "MULTIPLIER", value |-> 2] >>
    \o [k \in 1..SPECIAL_COPIES |-> [type |-> "FREEZE", value |-> 0]]
    \o [k \in 1..SPECIAL_COPIES |-> [type |-> "FLIP_THREE", value |-> 0]]
    \o [k \in 1..SPECIAL_COPIES |-> [type |-> "SECOND_CHANCE", value |-> 0]]

\* createCard: ids are assigned 1, 2, ... in the order the cards are pushed
InitialCards ==
    [k \in 1..Len(UnnumberedCards) |->
        [id |-> k, type |-> UnnumberedCards[k].type, value |-> UnnumberedCards[k].value]]

CardIds == 1..Len(InitialCards)

TypeOf(id) == InitialCards[id].type
ValueOf(id) == InitialCards[id].value

----------------------------------------------------------------------------
(* CardDeckService.shuffle: Fisher-Yates.  A tape is a set of pairs <<i, j>>
   (0-based, j <= i): at loop index i Math.floor(Math.random() * (i + 1))
   yields j; at an index the tape does not mention it yields i itself. *)

RandomIndex(tape, i) ==
    IF \E p \in tape : p[1] = i
    THEN (CHOOSE p \in tape : p[1] = i)[2]
    ELSE i

\* [shuffled[i], shuffled[j]] = [shuffled[j], shuffled[i]], 0-based i and j
Swap(cards, i, j) ==
    [cards EXCEPT ![i + 1] = cards[j + 1], ![j + 1] = cards[i + 1]]

\* the largest loop index <= i at which the swap moves anything (0 if none):
\* an iteration with j = i swaps an element with itself
NextSwap(tape, i) ==
    LET moving == {x \in 1..i : RandomIndex(tape, x) # x}
    IN IF moving = {} THEN 0 ELSE CHOOSE x \in moving : \A y \in moving : y <= x

\* for (let i = shuffled.length - 1; i > 0; i--): the iterations that move
\* nothing are passed over, the others run on the array as the previous
\* ones left it
RECURSIVE ShuffleLoop(_, _, _)
ShuffleLoop(shuffled, i, tape) ==
    IF NextSwap(tape, i) = 0 THEN shuffled
    ELSE CHOOSE result \in
            {ShuffleLoop(swapped, x - 1, tape) :
                <<swapped, x>> \in
                    {<<Swap(shuffled, NextSwap(tape, i),
                            RandomIndex(tape, NextSwap(tape, i))),
                       NextSwap(tape, i)>>}} : TRUE

shuffle(cards, tape) == ShuffleLoop(cards, Len(cards) - 1, tape)

\* variant of setDeck: the first of the shuffled cards is left out
setDeckWithoutFirst(cards, tape) ==
    IF cards = <<>> THEN <<>> ELSE Tail(shuffle(cards, tape))

\* setDeck: this.deck.set(this.shuffle(cards)); the result is the new pile
setDeck(cards, tape) == shuffle(cards, tape)

\* initializeDeck: the cards in creation order, shuffled
initializeDeck(tape) == shuffle([k \in 1..Len(InitialCards) |-> InitialCards[k].id], tape)

----------------------------------------------------------------------------
(* GameLogicService: pure rules over a hand of card ids *)

SelectType(cards, type) == SelectSeq(cards, LAMBDA c : TypeOf(c) = type)

NumberCardCount(cards) == Len(SelectType(cards, "NUMBER"))

\* variant of checkBust: the type of the new card is not looked at
checkBustAnyType(hand, newCard) ==
    \E k \in 1..Len(hand) :
        TypeOf(hand[k]) = "NUMBER" /\ ValueOf(hand[k]) = ValueOf(newCard)

\* variant of checkBust: the new card is compared with the first card of
\* the hand only
checkBustFirstCard(hand, newCard) ==
    /\ TypeOf(newCard) = "NUMBER"
    /\ hand # <<>>
    /\ TypeOf(hand[1]) = "NUMBER"
    /\ ValueOf(hand[1]) = ValueOf(newCard)

checkBust(hand, newCard) ==
    IF TypeOf(newCard) # "NUMBER" THEN FALSE
    ELSE \E k \in 1..Len(hand) :
            TypeOf(hand[k]) = "NUMBER" /\ ValueOf(hand[k]) = ValueOf(newCard)

hasSecondChance(hand) == \E k \in 1..Len(hand) : TypeOf(hand[k]) = "SECOND_CHANCE"

\* the filter callback of removeSecondChanceAndBustCard, card by card:
\* acc = [remainingCards, removedCards, secondChanceRemoved]
RECURSIVE RemoveLoop(_, _, _, _)
RemoveLoop(hand, k, bustCardId, acc) ==
    IF k > Len(hand) THEN acc
    ELSE LET card == hand[k] IN
         IF card = bustCardId
         THEN RemoveLoop(hand, k + 1, bustCardId,
                         [acc EXCEPT !.removedCards = Append(@, card)])
         ELSE IF TypeOf(card) = "SECOND_CHANCE" /\ ~acc.secondChanceRemoved
         THEN RemoveLoop(hand, k + 1, bustCardId,
                         [acc EXCEPT !.secondChanceRemoved = TRUE,
                                     !.removedCards = Append(@, card)])
         ELSE RemoveLoop(hand, k + 1, bustCardId,
                         [acc EXCEPT !.remainingCards = Append(@, card)])

\* variant of removeSecondChanceAndBustCard: every SECOND_CHANCE card of the
\* hand is removed
removeEverySecondChance(hand, bustCardId) ==
    [remainingCards |->
        SelectSeq(hand, LAMBDA c : c # bustCardId /\ TypeOf(c) # "SECOND_CHANCE"),
     removedCards |->
        SelectSeq(hand, LAMBDA c : c = bustCardId \/ TypeOf(c) = "SECOND_CHANCE")]

removeSecondChanceAndBustCard(hand, bustCardId) ==
    LET r == RemoveLoop(hand, 1, bustCardId,
                        [remainingCards |-> <<>>, removedCards |-> <<>>,
                         secondChanceRemoved |-> FALSE])
    IN [remainingCards |-> r.remainingCards, removedCards |-> r.removedCards]

RECURSIVE ScoreSum(_)
ScoreSum(hand) ==
    IF hand = <<>> THEN 0
    ELSE (IF TypeOf(Head(hand)) \in {"NUMBER", "ADDITION"} THEN ValueOf(Head(hand)) ELSE 0)
         + ScoreSum(Tail(hand))

calculateRoundScore(hand) ==
    LET score == ScoreSum(hand)
        hasMultiplier == \E k \in 1..Len(hand) : TypeOf(hand[k]) = "MULTIPLIER"
        multiplied == IF hasMultiplier THEN score * 2 ELSE score
    IN IF Len(hand) = 7 THEN multiplied + 15 ELSE multiplied

----------------------------------------------------------------------------
(* App: the component's signals as one record, and its methods as functions
   from the record before the call to the record after it *)

State ==
    [players |-> players, currentPlayerIndex |-> currentPlayerIndex,
     currentRoundScore |-> currentRoundScore, drawnCards |-> drawnCards,
     discardPile |-> discardPile, deck |-> deck, deckCount |-> deckCount,
     isTurnActive |-> isTurnActive, hasBusted |-> hasBusted,
     isFlippingThree |-> isFlippingThree, flipThreeCount |-> flipThreeCount,
     showStartModal |-> showStartModal, showEndModal |-> showEndModal,
     winner |-> winner, timers |-> timers]

\* setTimeout(callback, delay): i, n and base are the loop index, cardsToFlip
\* and baseDelay captured by an autoFlipThree callback (0 for the others)
Timer(kind, delay, i, n, base) ==
    [kind |-> kind, due |-> delay, i |-> i, n |-> n, base |-> base]

setTimeout(s, kind, delay) ==
    [s EXCEPT !.timers = Append(@, Timer(kind, delay, 0, 0, 0))]

\* variant of canDrawCard: a draw is allowed whenever the pile has cards
canDrawAnyHand(s) == s.deckCount > 0

\* variant of canDrawCard: a draw is allowed during an auto-flip sequence
canDrawWhileFlipping(s) ==
    /\ s.isTurnActive
    /\ ~s.hasBusted
    /\ NumberCardCount(s.drawnCards) < MAX_HAND_SIZE
    /\ s.deckCount > 0

canDrawCard(s) ==
    /\ s.isTurnActive
    /\ ~s.hasBusted
    /\ NumberCardCount(s.drawnCards) < MAX_HAND_SIZE
    /\ s.deckCount > 0
    /\ ~s.isFlippingThree

\* variant of canStartGame: any roster can start a match
canStartAnyRoster(s) == TRUE

canStartGame(s) ==
    Len(s.players) >= MIN_PLAYERS /\ Len(s.players) <= MAX_PLAYERS

\* CardDeckService.drawCard followed by deckCount.set(getRemainingCount()):
\* the card is 0 when the service returns null
\* variant of serviceDraw: an empty pile hands out the first card created
serviceDrawNeverNull(s) ==
    IF Len(s.deck) = 0
    THEN [card |-> 1, s |-> [s EXCEPT !.deckCount = Len(s.deck)]]
    ELSE [card |-> Head(s.deck),
          s |-> [s EXCEPT !.deck = Tail(@), !.deckCount = Len(Tail(s.deck))]]

\* variant of serviceDraw: the card is taken from the back of the pile
serviceDrawLast(s) ==
    IF Len(s.deck) = 0
    THEN [card |-> 0, s |-> [s EXCEPT !.deckCount = Len(s.deck)]]
    ELSE [card |-> s.deck[Len(s.deck)],
          s |-> [s EXCEPT !.deck = SubSeq(@, 1, Len(@) - 1),
                          !.deckCount = Len(s.deck) - 1]]

serviceDraw(s) ==
    IF Len(s.deck) = 0
    THEN [card |-> 0, s |-> [s EXCEPT !.deckCount = Len(s.deck)]]
    ELSE [card |-> Head(s.deck),
          s |-> [s EXCEPT !.deck = Tail(@), !.deckCount = Len(Tail(s.deck))]]

\* variant of scheduleReshuffle: the emptied draw pile goes unnoticed and no
\* reshuffle is scheduled
scheduleNothing(s) == s

\* "if deck just became empty after drawing, trigger reshuffle"
scheduleReshuffle(s) ==
    IF s.deckCount = 0 /\ Len(s.discardPile) > 0
    THEN setTimeout(s, "reshuffle", POPUP_SHORT_DURATION_MS)
    ELSE s

\* showTurnEndNotification: the popup's timeout continues with
\* showNextPlayerAndEndTurn
showTurnEndNotification(s) == setTimeout(s, "turnEndPopup", POPUP_DISPLAY_DURATION_MS)

showNextPlayerAndEndTurn(s) == setTimeout(s, "nextPlayerPopup", POPUP_DISPLAY_DURATION_MS)

RECURSIVE autoFlipLoop(_, _, _, _)
autoFlipLoop(s, i, cardsToFlip, baseDelay) ==
    IF i >= cardsToFlip THEN s
    ELSE autoFlipLoop(
            [s EXCEPT !.timers = Append(@,
                Timer("autoFlip", baseDelay + (i + 1) * AUTO_FLIP_STAGGER_DELAY_MS,
                      i, cardsToFlip, baseDelay))],
            i + 1, cardsToFlip, baseDelay)

autoFlipThree(s, cardsToFlip, baseDelay) == autoFlipLoop(s, 0, cardsToFlip, baseDelay)

\* the second-chance branch of drawCard
useSecondChance(s, card) ==
    LET r == removeSecondChanceAndBustCard(s.drawnCards, card)
    IN [s EXCEPT !.drawnCards = r.remainingCards,
                 !.discardPile = r.removedCards \o @]

\* variant of bust: the duplicate ends the turn but the turn is not marked
\* busted and keeps its round score
bustKeepingScore(s, card) ==
    showTurnEndNotification(
        [s EXCEPT !.drawnCards = Append(@, card),
                  !.isTurnActive = FALSE])

\* the bust branch of drawCard
bust(s, card) ==
    showTurnEndNotification(
        [s EXCEPT !.drawnCards = Append(@, card),
                  !.hasBusted = TRUE,
                  !.isTurnActive = FALSE,
                  !.currentRoundScore = 0])

\* the hand-limit check that ends drawCard
checkHandLimit(s) ==
    IF NumberCardCount(s.drawnCards) >= MAX_HAND_SIZE
    THEN setTimeout([s EXCEPT !.isTurnActive = FALSE], "bonusPopup",
                    POPUP_DISPLAY_DURATION_MS)
    ELSE s

\* drawCard from "add card to hand" on
addCard(s, card) ==
    LET newCards == Append(s.drawnCards, card)
        a == [s EXCEPT !.drawnCards = newCards,
                       !.currentRoundScore = calculateRoundScore(newCards)]
    IN IF TypeOf(card) = "FREEZE"
       THEN showTurnEndNotification([a EXCEPT !.isTurnActive = FALSE])
       ELSE IF TypeOf(card) = "FLIP_THREE" /\ ~a.isFlippingThree
       THEN checkHandLimit(
                autoFlipThree([a EXCEPT !.isFlippingThree = TRUE, !.flipThreeCount = 0],
                              3, 0))
       ELSE checkHandLimit(a)

drawCard(s) ==
    IF s.deckCount = 0 THEN s
    ELSE IF ~canDrawCard(s) THEN s
    ELSE LET d == serviceDraw(s)
             card == d.card
             r == scheduleReshuffle(d.s)
         IN IF card = 0 THEN r
            ELSE IF checkBust(r.drawnCards, card)
            THEN IF hasSecondChance(r.drawnCards)
                 THEN useSecondChance(r, card)
                 ELSE bust(r, card)
            ELSE addCard(r, card)

endTurn(s) == showNextPlayerAndEndTurn([s EXCEPT !.isTurnActive = FALSE])

stopFlipping(s) == [s EXCEPT !.isFlippingThree = FALSE, !.flipThreeCount = 0]

\* "reset flags after the last card attempt"
afterLastAttempt(s, t) == IF t.i = t.n - 1 THEN stopFlipping(s) ELSE s

\* the second-chance branch of the autoFlipThree callback
autoUseSecondChance(s, card) ==
    LET r == removeSecondChanceAndBustCard(s.drawnCards, card)
    IN [s EXCEPT !.drawnCards = r.remainingCards,
                 !.discardPile = @ \o r.removedCards]

\* the bust branch of the autoFlipThree callback
autoBust(s, card) ==
    showTurnEndNotification(
        [s EXCEPT !.drawnCards = Append(@, card),
                  !.hasBusted = TRUE,
                  !.isTurnActive = FALSE,
                  !.currentRoundScore = 0,
                  !.isFlippingThree = FALSE,
                  !.flipThreeCount = 0])

\* the autoFlipThree callback from "add card to hand" on
autoAddCard(s, card, t) ==
    LET newCards == Append(s.drawnCards, card)
        a == [s EXCEPT !.drawnCards = newCards,
                       !.currentRoundScore = calculateRoundScore(newCards)]
    IN IF TypeOf(card) = "FLIP_THREE"
       THEN autoFlipThree(a, 3, t.base + ((t.i + 1) + 1) * AUTO_FLIP_STAGGER_DELAY_MS)
       ELSE IF TypeOf(card) = "FREEZE"
       THEN showTurnEndNotification(stopFlipping([a EXCEPT !.isTurnActive = FALSE]))
       ELSE IF NumberCardCount(newCards) >= MAX_HAND_SIZE
       THEN setTimeout(stopFlipping([a EXCEPT !.isTurnActive = FALSE]), "bonusPopup",
                       POPUP_DISPLAY_DURATION_MS)
       ELSE afterLastAttempt([a EXCEPT !.flipThreeCount = @ + 1], t)

\* variant of autoFlipCallback: the callback only checks that the pile has
\* cards left
autoFlipUnguarded(s, t) ==
    IF s.deckCount > 0
    THEN LET d == serviceDraw(s)
             card == d.card
             r == scheduleReshuffle(d.s)
         IN IF card = 0 THEN stopFlipping(r)
            ELSE IF checkBust(r.drawnCards, card)
            THEN IF hasSecondChance(r.drawnCards)
                 THEN afterLastAttempt(
                         [autoUseSecondChance(r, card) EXCEPT !.flipThreeCount = @ + 1], t)
                 ELSE autoBust(r, card)
            ELSE autoAddCard(r, card, t)
    ELSE afterLastAttempt(stopFlipping(s), t)

\* the callback autoFlipThree schedules for loop index t.i
autoFlipCallback(s, t) ==
    IF /\ s.isTurnActive
       /\ ~s.hasBusted
       /\ NumberCardCount(s.drawnCards) < MAX_HAND_SIZE
       /\ s.deckCount > 0
    THEN LET d == serviceDraw(s)
             card == d.card
             r == scheduleReshuffle(d.s)
         IN IF card = 0 THEN stopFlipping(r)
            ELSE IF checkBust(r.drawnCards, card)
            THEN IF hasSecondChance(r.drawnCards)
                 THEN afterLastAttempt(
                         [autoUseSecondChance(r, card) EXCEPT !.flipThreeCount = @ + 1], t)
                 ELSE autoBust(r, card)
            ELSE autoAddCard(r, card, t)
    ELSE afterLastAttempt(stopFlipping(s), t)

\* variant of reshuffleCallback: the callback runs and leaves both piles as
\* they are
reshuffleNothing(s, tape) == s

\* variant of reshuffleCallback: the new pile is loaded and deckCount is
\* left as it was
reshuffleStaleCount(s, tape) ==
    [s EXCEPT !.deck = setDeck(s.discardPile, tape), !.discardPile = <<>>]

\* the deferred reshuffle: cardDeckService.setDeck(discardPile()) and the rest
reshuffleCallback(s, tape) ==
    LET newDeck == setDeck(s.discardPile, tape)
    IN [s EXCEPT !.deck = newDeck, !.discardPile = <<>>, !.deckCount = Len(newDeck)]

\* variant of ReduceMax: the comparison is turned around
RECURSIVE ReduceMin(_, _, _)
ReduceMin(ps, k, prev) ==
    IF k > Len(ps) THEN prev
    ELSE ReduceMin(ps, k + 1, IF prev.totalScore < ps[k].totalScore THEN prev ELSE ps[k])

\* variant of ReduceMax: an equal score does not replace the earlier player
RECURSIVE ReduceMaxFirst(_, _, _)
ReduceMaxFirst(ps, k, prev) ==
    IF k > Len(ps) THEN prev
    ELSE ReduceMaxFirst(ps, k + 1, IF prev.totalScore >= ps[k].totalScore THEN prev ELSE ps[k])

\* updatedPlayers.reduce((prev, current) =>
\*     prev.totalScore > current.totalScore ? prev : current)
RECURSIVE ReduceMax(_, _, _)
ReduceMax(ps, k, prev) ==
    IF k > Len(ps) THEN prev
    ELSE ReduceMax(ps, k + 1, IF prev.totalScore > ps[k].totalScore THEN prev ELSE ps[k])

finalScore(s) == IF s.hasBusted THEN 0 ELSE s.currentRoundScore

\* variant of finalizeTurnEnd: the hand is cleared without its cards going
\* to the discard pile
finalizeDroppingHand(s) ==
    LET updatedPlayers ==
            [idx \in 1..Len(s.players) |->
                IF idx - 1 = s.currentPlayerIndex
                THEN [s.players[idx] EXCEPT !.totalScore = @ + finalScore(s)]
                ELSE s.players[idx]]
        a == [s EXCEPT !.players = updatedPlayers,
                       !.drawnCards = <<>>,
                       !.currentRoundScore = 0,
                       !.hasBusted = FALSE,
                       !.isTurnActive = TRUE,
                       !.isFlippingThree = FALSE,
                       !.flipThreeCount = 0,
                       !.currentPlayerIndex = (@ + 1) % Len(s.players)]
    IN IF \E idx \in 1..Len(updatedPlayers) :
            updatedPlayers[idx].totalScore >= WINNING_SCORE
       THEN [a EXCEPT !.winner = << ReduceMax(updatedPlayers, 2, updatedPlayers[1]) >>,
                      !.showEndModal = TRUE]
       ELSE a

\* variant of finalizeTurnEnd: the same player stays to move
finalizeSamePlayer(s) ==
    LET updatedPlayers ==
            [idx \in 1..Len(s.players) |->
                IF idx - 1 = s.currentPlayerIndex
                THEN [s.players[idx] EXCEPT !.totalScore = @ + finalScore(s)]
                ELSE s.players[idx]]
        a == [s EXCEPT !.players = updatedPlayers,
                       !.discardPile = s.drawnCards \o @,
                       !.drawnCards = <<>>,
                       !.currentRoundScore = 0,
                       !.hasBusted = FALSE,
                       !.isTurnActive = TRUE,
                       !.isFlippingThree = FALSE,
                       !.flipThreeCount = 0]
    IN IF \E idx \in 1..Len(updatedPlayers) :
            updatedPlayers[idx].totalScore >= WINNING_SCORE
       THEN [a EXCEPT !.winner = << ReduceMax(updatedPlayers, 2, updatedPlayers[1]) >>,
                      !.showEndModal = TRUE]
       ELSE a

\* currentPlayerIndex is 0-based as in the code; players is a 1-based sequence
finalizeTurnEnd(s) ==
    LET updatedPlayers ==
            [idx \in 1..Len(s.players) |->
                IF idx - 1 = s.currentPlayerIndex
                THEN [s.players[idx] EXCEPT !.totalScore = @ + finalScore(s)]
                ELSE s.players[idx]]
        a == [s EXCEPT !.players = updatedPlayers,
                       !.discardPile = s.drawnCards \o @,
                       !.drawnCards = <<>>,
                       !.currentRoundScore = 0,
                       !.hasBusted = FALSE,
                       !.isTurnActive = TRUE,
                       !.isFlippingThree = FALSE,
                       !.flipThreeCount = 0,
                       !.currentPlayerIndex = (@ + 1) % Len(s.players)]
    IN IF \E idx \in 1..Len(updatedPlayers) :
            updatedPlayers[idx].totalScore >= WINNING_SCORE
       THEN [a EXCEPT !.winner = << ReduceMax(updatedPlayers, 2, updatedPlayers[1]) >>,
                      !.showEndModal = TRUE]
       ELSE a

\* PLAYER_CONFIG.getDefaultName
getDefaultName(index) == "Player " \o ToString(index + 1)

\* String.prototype.trim on the names the model enters
trim(name) ==
    CASE name = " Ann " -> "Ann"
      [] name = "  " -> ""
      [] OTHER -> name

handleAddPlayer(s, playerName) ==
    LET playerIndex == Len(s.players)
        name == IF trim(playerName) # "" THEN trim(playerName)
                ELSE getDefaultName(playerIndex)
    IN [s EXCEPT !.players = Append(@, [name |-> name, totalScore |-> 0])]

\* players().filter((_, i) => i !== index)
handleRemovePlayer(s, index) ==
    LET kept == SelectSeq([k \in 1..Len(s.players) |-> k], LAMBDA k : k - 1 # index)
    IN [s EXCEPT !.players = [j \in 1..Len(kept) |-> s.players[kept[j]]]]

handleUpdatePlayerName(s, index, name) ==
    [s EXCEPT !.players =
        [k \in 1..Len(s.players) |->
            IF k - 1 = index
            THEN [s.players[k] EXCEPT !.name =
                     IF trim(name) # "" THEN trim(name) ELSE getDefaultName(index)]
            ELSE s.players[k]]]

\* variant of resetGameState: the players keep their total scores
resetKeepingScores(s, tape) ==
    LET newDeck == initializeDeck(tape)
    IN [s EXCEPT !.currentPlayerIndex = 0,
                 !.currentRoundScore = 0,
                 !.drawnCards = <<>>,
                 !.discardPile = <<>>,
                 !.isTurnActive = TRUE,
                 !.hasBusted = FALSE,
                 !.isFlippingThree = FALSE,
                 !.flipThreeCount = 0,
                 !.deck = newDeck,
                 !.deckCount = Len(newDeck)]

resetGameState(s, tape) ==
    LET newDeck == initializeDeck(tape)
    IN [s EXCEPT !.currentPlayerIndex = 0,
                 !.currentRoundScore = 0,
                 !.drawnCards = <<>>,
                 !.discardPile = <<>>,
                 !.isTurnActive = TRUE,
                 !.hasBusted = FALSE,
                 !.isFlippingThree = FALSE,
                 !.flipThreeCount = 0,
                 !.deck = newDeck,
                 !.deckCount = Len(newDeck),
                 !.players = [k \in 1..Len(s.players) |->
                                 [s.players[k] EXCEPT !.totalScore = 0]]]

startGame(s, tape) ==
    IF ~canStartGame(s) THEN s
    ELSE resetGameState([s EXCEPT !.showStartModal = FALSE], tape)

returnToStart(s, tape) ==
    resetGameState([s EXCEPT !.showEndModal = FALSE,
                             !.showStartModal = TRUE,
                             !.winner = <<>>], tape)

----------------------------------------------------------------------------
(* Outcomes of Math.random the model considers.  Each tape is given by the
   cards it leaves on top of a freshly built deck. *)

\* top of a fresh deck: FREEZE, then the 12s in creation order
TapeFreeze == {<<85, 0>>}

\* top of a fresh deck: SECOND_CHANCE, 9, 9, FREEZE
TapeSecondChance == {<<91, 0>>, <<33, 1>>, <<34, 2>>, <<85, 3>>}

\* top of a fresh deck: FLIP_THREE, FLIP_THREE, 7, SECOND_CHANCE, 7, 7, FREEZE
TapeFlipThree ==
    {<<88, 0>>, <<89, 1>>, <<50, 2>>, <<92, 3>>, <<51, 4>>, <<52, 5>>, <<86, 6>>}

\* top of a fresh deck: FLIP_THREE three times, then 12 11 10 9 8 7 6
TapeSevenNumbers ==
    {<<88, 0>>, <<89, 1>>, <<90, 2>>, <<12, 4>>, <<23, 5>>, <<33, 6>>, <<42, 7>>,
     <<50, 8>>, <<57, 9>>}

\* top of a fresh deck: FLIP_THREE, FLIP_THREE, SECOND_CHANCE, SECOND_CHANCE,
\* 9, 8, 7, 9, 9, 6, FREEZE
TapeSevenCards ==
    {<<88, 0>>, <<89, 1>>, <<91, 2>>, <<92, 3>>, <<33, 4>>, <<42, 5>>, <<50, 6>>,
     <<34, 7>>, <<35, 8>>, <<57, 9>>, <<85, 10>>}

Tapes ==
    {TapeFreeze, TapeSecondChance, TapeFlipThree, TapeSevenNumbers, TapeSevenCards}

\* names typed into the start modal
NameInputs == {"", " Ann "}

----------------------------------------------------------------------------
(* Initial states *)

ThreePlayers(scores) ==
    [k \in 1..3 |-> [name |-> getDefaultName(k - 1), totalScore |-> scores[k]]]

\* the application as constructed: start modal open, three default players,
\* the deck service holding a freshly shuffled deck
InitConstructed ==
    /\ players = ThreePlayers(<<0, 0, 0>>)
    /\ currentPlayerIndex = 0
    /\ currentRoundScore = 0
    /\ drawnCards = <<>>
    /\ discardPile = <<>>
    /\ \E tape \in Tapes : deck = initializeDeck(tape)
    /\ deckCount = DECK_SIZE
    /\ isTurnActive = TRUE
    /\ hasBusted = FALSE
    /\ isFlippingThree = FALSE
    /\ flipThreeCount = 0
    /\ showStartModal = TRUE
    /\ showEndModal = FALSE
    /\ winner = <<>>
    /\ timers = <<>>
    /\ inputs = 0

\* the last cards of the draw pile late in a match: 12, FLIP_THREE,
\* FLIP_THREE, 5
LateDeck == <<1, 89, 90, 64>>

\* a match in progress between two turns, late in the first pass through
\* the deck: four cards are left to draw, the other ninety have been played
\* and discarded, and the player to move needs ten more points to win
InitLateMatch ==
    /\ players = ThreePlayers(<<190, 120, 185>>)
    /\ currentPlayerIndex = 0
    /\ currentRoundScore = 0
    /\ drawnCards = <<>>
    /\ discardPile = SelectSeq([k \in 1..Len(InitialCards) |-> k],
                               LAMBDA c : \A k \in 1..Len(LateDeck) : LateDeck[k] # c)
    /\ deck = LateDeck
    /\ deckCount = Len(LateDeck)
    /\ isTurnActive = TRUE
    /\ hasBusted = FALSE
    /\ isFlippingThree = FALSE
    /\ flipThreeCount = 0
    /\ showStartModal = FALSE
    /\ showEndModal = FALSE
    /\ winner = <<>>
    /\ timers = <<>>
    /\ inputs = 0

Init == InitConstructed \/ InitLateMatch

\* a roster of n players under their default names: the constructed roster
\* after n - 3 additions with an empty name field
DefaultPlayers(n) ==
    [k \in 1..n |-> [name |-> getDefaultName(k - 1), totalScore |-> 0]]

\* the start modal before a match, with the constructed roster or with a
\* roster one short of the maximum, and MaxRosterEdits inputs to go
InitRoster ==
    /\ players \in {DefaultPlayers(MIN_PLAYERS), DefaultPlayers(MAX_PLAYERS - 1)}
    /\ currentPlayerIndex = 0
    /\ currentRoundScore = 0
    /\ drawnCards = <<>>
    /\ discardPile = <<>>
    /\ deck = initializeDeck(TapeFreeze)
    /\ deckCount = DECK_SIZE
    /\ isTurnActive = TRUE
    /\ hasBusted = FALSE
    /\ isFlippingThree = FALSE
    /\ flipThreeCount = 0
    /\ showStartModal = TRUE
    /\ showEndModal = FALSE
    /\ winner = <<>>
    /\ timers = <<>>
    /\ inputs = MaxInputs - MaxRosterEdits

----------------------------------------------------------------------------
(* Actions *)

Set(n) ==
    /\ players' = n.players
    /\ currentPlayerIndex' = n.currentPlayerIndex
    /\ currentRoundScore' = n.currentRoundScore
    /\ drawnCards' = n.drawnCards
    /\ discardPile' = n.discardPile
    /\ deck' = n.deck
    /\ deckCount' = n.deckCount
    /\ isTurnActive' = n.isTurnActive
    /\ hasBusted' = n.hasBusted
    /\ isFlippingThree' = n.isFlippingThree
    /\ flipThreeCount' = n.flipThreeCount
    /\ showStartModal' = n.showStartModal
    /\ showEndModal' = n.showEndModal
    /\ winner' = n.winner
    /\ timers' = n.timers

\* a user input: it counts against MaxInputs when it changes anything
Input(after) ==
    \E n \in {after} : Set(n) /\ inputs' = IF n = State THEN inputs ELSE inputs + 1

\* the deck and its keyboard shortcuts are out of reach while a modal
\* dialog is open (DeckSection.handleSpaceKey / handleEnterKey)
ModalOpen == showStartModal \/ showEndModal

\* StartModal.canAddPlayer / canRemovePlayer: whether the modal offers the
\* add and the remove controls
\* variant of canAddPlayer: the roster has no upper limit
canAddAlways == TRUE

canAddPlayer == Len(players) < MAX_PLAYERS

canRemovePlayer == Len(players) > MIN_PLAYERS

\* the start modal's template binds its add and remove controls to the two
\* getters: a control that is not offered cannot be used
AddControlEnabled == canAddPlayer

RemoveControlEnabled == canRemovePlayer

\* start modal: add, remove, rename a player, start the game
AddPlayer ==
    /\ inputs < MaxInputs
    /\ showStartModal
    /\ AddControlEnabled
    /\ \E name \in NameInputs : Input(handleAddPlayer(State, trim(name)))

RemovePlayer ==
    /\ inputs < MaxInputs
    /\ showStartModal
    /\ RemoveControlEnabled
    /\ \E index \in 0..(Len(players) - 1) : Input(handleRemovePlayer(State, index))

UpdatePlayerName ==
    /\ inputs < MaxInputs
    /\ showStartModal
    /\ \E index \in 0..(Len(players) - 1), name \in NameInputs :
          Input(handleUpdatePlayerName(State, index, name))

StartGame ==
    /\ inputs < MaxInputs
    /\ showStartModal
    /\ \E tape \in Tapes : Input(startGame(State, tape))

\* end modal: EndModal.handleReturnToStart
ReturnToStart ==
    /\ inputs < MaxInputs
    /\ showEndModal
    /\ \E tape \in Tapes : Input(returnToStart(State, tape))

\* DeckSection.handleDrawCard -> App.drawCard
DrawCard ==
    /\ inputs < MaxInputs
    /\ ~ModalOpen
    /\ Input(drawCard(State))

\* variant of handleEnterKey: the turn can be ended with an empty hand
handleEnterKeyAnyHand(s) ==
    IF s.isTurnActive THEN endTurn(s) ELSE s

\* DeckSection.handleEnterKey below its modal check: "if (this.isTurnActive()
\* && this.hasDrawnCards()) this.endTurn.emit()"
handleEnterKey(s) ==
    IF s.isTurnActive /\ s.drawnCards # <<>> THEN endTurn(s) ELSE s

\* DeckSection.handleEnterKey -> App.endTurn
EndTurn ==
    /\ inputs < MaxInputs
    /\ ~ModalOpen
    /\ Input(handleEnterKey(State))

\* 500 ms pass: possible when no callback is due
Tick ==
    /\ timers # <<>>
    /\ \A k \in 1..Len(timers) : timers[k].due > 0
    /\ timers' = [k \in 1..Len(timers) |-> [timers[k] EXCEPT !.due = @ - TickMs]]
    /\ UNCHANGED <<players, currentPlayerIndex, currentRoundScore, drawnCards,
                   discardPile, deck, deckCount, isTurnActive, hasBusted,
                   isFlippingThree, flipThreeCount, showStartModal, showEndModal,
                   winner, inputs>>

\* the callback that runs next: the earliest created among those due
DueIndex == CHOOSE k \in 1..Len(timers) :
                /\ timers[k].due <= 0
                /\ \A j \in 1..(k - 1) : timers[j].due > 0

SomeDue == \E k \in 1..Len(timers) : timers[k].due <= 0

DueTimer == timers[DueIndex]

\* the state in which the due callback starts: its timer is gone
Popped ==
    [State EXCEPT !.timers = SubSeq(timers, 1, DueIndex - 1)
                             \o SubSeq(timers, DueIndex + 1, Len(timers))]

\* the callback that runs next is of this kind
Due(kind) == SomeDue /\ DueTimer.kind = kind

Run(after) == \E n \in {after} : Set(n) /\ UNCHANGED inputs

ReshuffleFires ==
    /\ Due("reshuffle")
    /\ \E tape \in Tapes : Run(reshuffleCallback(Popped, tape))

AutoFlipFires ==
    /\ Due("autoFlip")
    /\ Run(autoFlipCallback(Popped, DueTimer))

TurnEndPopupFires ==
    /\ Due("turnEndPopup")
    /\ Run(showNextPlayerAndEndTurn(Popped))

BonusPopupFires ==
    /\ Due("bonusPopup")
    /\ Run(showNextPlayerAndEndTurn(Popped))

NextPlayerPopupFires ==
    /\ Due("nextPlayerPopup")
    /\ Run(finalizeTurnEnd(Popped))

Next ==
    \/ AddPlayer
    \/ RemovePlayer
    \/ UpdatePlayerName
    \/ StartGame
    \/ ReturnToStart
    \/ DrawCard
    \/ EndTurn
    \/ Tick
    \/ ReshuffleFires
    \/ AutoFlipFires
    \/ TurnEndPopupFires
    \/ BonusPopupFires
    \/ NextPlayerPopupFires

Spec == Init /\ [][Next]_vars

\* the roster being edited in the start modal
RosterNext ==
    \/ AddPlayer
    \/ RemovePlayer

RosterSpec == InitRoster /\ [][RosterNext]_vars

\* App.handleAddPlayer and App.handleRemovePlayer as the App defines them,
\* called without regard to the start modal's controls
HandleAddPlayer ==
    /\ inputs < MaxInputs
    /\ showStartModal
    /\ \E name \in NameInputs : Input(handleAddPlayer(State, trim(name)))

\* the first or the last player is removed
HandleRemovePlayer ==
    /\ inputs < MaxInputs
    /\ showStartModal
    /\ \E index \in {0, Len(players) - 1} : Input(handleRemovePlayer(State, index))

\* the App's own roster and start handlers
AppNext ==
    \/ HandleAddPlayer
    \/ HandleRemovePlayer
    \/ StartGame

AppSpec == InitRoster /\ [][AppNext]_vars

\* the deck service driven alone, as its tests drive it: drawCard is called
\* and the card it returns, if any, is kept ("if (card) drawnCards.push(card)");
\* inputs counts the calls
ServiceDrawCard ==
    /\ inputs < MaxCalls
    /\ deck' = serviceDraw(State).s.deck
    /\ deckCount' = serviceDraw(State).s.deckCount
    /\ drawnCards' = IF serviceDraw(State).card # 0
                      THEN Append(drawnCards, serviceDraw(State).card)
                      ELSE drawnCards
    /\ inputs' = inputs + 1
    /\ UNCHANGED <<players, currentPlayerIndex, currentRoundScore, discardPile,
                   isTurnActive, hasBusted, isFlippingThree, flipThreeCount,
                   showStartModal, showEndModal, winner, timers>>

DeckNext == ServiceDrawCard

DeckSpec == InitConstructed /\ [][DeckNext]_vars

\* what happens without the user: time passes, or a due callback runs
TimerStep ==
    \/ Tick
    \/ ReshuffleFires
    \/ AutoFlipFires
    \/ TurnEndPopupFires
    \/ BonusPopupFires
    \/ NextPlayerPopupFires

\* time passes and the event loop runs every callback that is due: while a
\* callback is pending, TimerStep stays enabled and is eventually taken
FairSpec == Spec /\ WF_vars(TimerStep)

----------------------------------------------------------------------------
(* Vocabulary of the properties *)

InMatch == ~showStartModal

TotalScores == [k \in 1..Len(players) |-> players[k].totalScore]

Occurrences(cards, id) == Cardinality({k \in 1..Len(cards) : cards[k] = id})

\* a card leaves the front of the draw pile (manual or automatic draw)
DrawStep == deck # <<>> /\ deck' = Tail(deck) /\ (DrawCard \/ AutoFlipFires)

Pending(kind) == \E k \in 1..Len(timers) : timers[k].kind = kind

\* two Number cards of the hand carry the same value
DuplicateNumber(hand) ==
    \E j, k \in 1..Len(hand) :
        /\ j < k
        /\ TypeOf(hand[j]) = "NUMBER" /\ TypeOf(hand[k]) = "NUMBER"
        /\ ValueOf(hand[j]) = ValueOf(hand[k])

MaxScore(ps) == CHOOSE m \in {ps[k].totalScore : k \in 1..Len(ps)} :
                    \A k \in 1..Len(ps) : ps[k].totalScore <= m

IsPermutation(a, b) ==
    /\ Len(a) = Len(b)
    /\ \A k \in 1..Len(a) : Occurrences(a, a[k]) = Occurrences(b, a[k])

----------------------------------------------------------------------------
(* C1: card conservation.  In every state of a match the draw pile, the
   discard pile and the hand together hold 94 cards. *)
C1_CardConservation ==
    InMatch => Len(deck) + Len(discardPile) + Len(drawnCards) = DECK_SIZE

(* C2: second-chance mitigation.  When a drawn Number card would bust and
   the hand holds a SECOND_CHANCE, the hand ends one card shorter than
   before the draw (two shorter than hand plus drawn card), the drawn card
   is not in it, the discard pile has gained two cards, the drawn card among
   them, and the turn is still active and not busted. *)
C2_Mitigation ==
    [][(/\ DrawStep
        /\ checkBust(drawnCards, Head(deck))
        /\ hasSecondChance(drawnCards))
       => /\ Len(drawnCards') = Len(drawnCards) + 1 - 2
          /\ Occurrences(drawnCards', Head(deck)) = 0
          /\ Len(SelectType(drawnCards', "SECOND_CHANCE"))
                = Len(SelectType(drawnCards, "SECOND_CHANCE")) - 1
          /\ Len(discardPile') = Len(discardPile) + 2
          /\ Occurrences(discardPile', Head(deck)) = 1
          /\ isTurnActive'
          /\ ~hasBusted']_vars

(* C3: bust forfeits the score.  When a turn that is marked busted, or whose
   hand shows the bust (two Number cards of equal value), is finalized, no
   player's totalScore changes. *)
C3_BustForfeits ==
    [][(NextPlayerPopupFires /\ (hasBusted \/ DuplicateNumber(drawnCards)))
       => TotalScores' = TotalScores]_vars

\* a busted turn that had points before the bust is about to be finalized
C3_Witness ==
    /\ Due("nextPlayerPopup")
    /\ hasBusted
    /\ DuplicateNumber(drawnCards)
    /\ calculateRoundScore(SubSeq(drawnCards, 1, Len(drawnCards) - 1)) > 0

\* (S + A) * (2 if a Multiplier is held) + (15 if exactly 7 Number cards)
ScoreLaw(hand) ==
    LET sum == ScoreSum(hand)
        doubled == IF SelectType(hand, "MULTIPLIER") # <<>> THEN 2 * sum ELSE sum
    IN doubled + (IF NumberCardCount(hand) = 7 THEN 15 ELSE 0)

(* C4: score law.  The round score computed for the hand equals
   (S + A) * (2 if a Multiplier is in the hand, else 1) + (15 if the hand
   holds exactly 7 Number cards, else 0). *)
C4_ScoreLaw == calculateRoundScore(drawnCards) = ScoreLaw(drawnCards)

(* C5: win condition.  After a turn finalization the winner is set exactly
   if some player's totalScore is at least 200, and the winner's totalScore
   is then the maximum over the roster. *)
C5_WinCondition ==
    [][NextPlayerPopupFires
       => /\ (winner' # <<>>)
               <=> (\E k \in 1..Len(players') : players'[k].totalScore >= WINNING_SCORE)
          /\ winner' # <<>> => winner'[1].totalScore = MaxScore(players')]_vars

\* a finalization has just ended the match: the end modal is open and the
\* winner holds the top score, which another player does not reach
C5_Witness ==
    /\ winner # <<>>
    /\ showEndModal
    /\ winner[1].totalScore >= WINNING_SCORE
    /\ \E k \in 1..Len(players) : players[k].totalScore < winner[1].totalScore

(* C6: the match is frozen after a win.  While the winner stays set, no step
   changes the hand, the draw pile, the discard pile, a totalScore, the
   active player index or the winner. *)
C6_FrozenAfterWin ==
    [][(winner # <<>> /\ winner' # <<>>)
       => UNCHANGED <<drawnCards, deck, discardPile, players, currentPlayerIndex,
                      winner>>]_vars

(* C7 as stated: synchronous reshuffle.  A step that takes the last card
   from the draw pile while the discard pile is non-empty leaves the draw
   pile non-empty (refilled from the discard pile). *)
C7_SynchronousReshuffle ==
    [][(DrawStep /\ Len(deck) = 1 /\ discardPile # <<>>) => deck' # <<>>]_vars

(* C7 as amended: deferred reshuffle.  A draw that empties the draw pile
   while the discard pile is non-empty leaves the draw pile empty and
   schedules the reshuffle callback; a draw request made while the draw pile
   is empty changes nothing; the callback, when it runs, makes the draw pile
   a permutation of the discard pile and empties the discard pile. *)
C7_DeferredReshuffle ==
    [][/\ (DrawStep /\ Len(deck) = 1 /\ discardPile # <<>>)
            => (deck' = <<>> /\ deckCount' = 0 /\ Pending("reshuffle")')
       /\ (DrawCard /\ deckCount = 0) => UNCHANGED vars
       /\ ReshuffleFires
            => /\ IsPermutation(deck', discardPile)
               /\ discardPile' = <<>>
               /\ deckCount' = Len(deck')]_vars

\* the draw pile has been emptied, the reshuffle is still pending, and the
\* turn is one in which a draw would otherwise be accepted
C7_Witness ==
    /\ InMatch
    /\ deck = <<>>
    /\ discardPile # <<>>
    /\ Pending("reshuffle")
    /\ isTurnActive /\ ~hasBusted /\ ~isFlippingThree
    /\ NumberCardCount(drawnCards) < MAX_HAND_SIZE
    /\ ~showEndModal
    /\ inputs < MaxInputs

(* C8: reshuffle liveness.  Whenever, during a match, the draw pile is empty
   and the discard pile is not, eventually the draw pile holds cards again
   and the discard pile is empty. *)
C8_ReshuffleLiveness ==
    (InMatch /\ deck = <<>> /\ discardPile # <<>>)
        ~> (deck # <<>> /\ discardPile = <<>>)

\* a reshuffle has happened in a match that was under way: the discard pile
\* is empty, the draw pile holds what was discarded, the turn goes on
C8_Witness ==
    /\ InMatch
    /\ discardPile = <<>>
    /\ deck # <<>>
    /\ drawnCards # <<>>
    /\ \E k \in 1..Len(players) : players[k].totalScore > 0

(* C9: no card lost or duplicated.  In every state of a match each of the 94
   card ids occurs exactly once in draw pile, discard pile and hand taken
   together. *)
C9_EachCardOnce ==
    InMatch => \A id \in CardIds :
                  Occurrences(deck \o discardPile \o drawnCards, id) = 1

(* C10: flip-three serialization.  While automatic draws of a flip-three
   sequence are still scheduled, a draw request or an end-turn request
   changes nothing. *)
C10_FlipThreeSerialized ==
    [][(Pending("autoFlip") /\ (DrawCard \/ EndTurn)) => UNCHANGED vars]_vars

\* the automatic draws that are scheduled and have not run yet
ScheduledFlips == Len(SelectSeq(timers, LAMBDA t : t.kind = "autoFlip"))

\* the turn is in none of the terminal states: active, not busted, below the
\* hand limit
TurnOpen ==
    isTurnActive /\ ~hasBusted /\ NumberCardCount(drawnCards) < MAX_HAND_SIZE

(* C11: flip-three length.  A manual draw of a FLIP_THREE schedules exactly
   three automatic draws; a FLIP_THREE drawn by an automatic draw schedules
   three more besides those still scheduled; and a scheduled automatic draw
   that comes due while the turn is active, not busted and below the hand
   limit draws a card. *)
C11_FlipThreeLength ==
    [][/\ (DrawCard /\ DrawStep /\ TypeOf(Head(deck)) = "FLIP_THREE")
            => ScheduledFlips' = ScheduledFlips + 3
       /\ (AutoFlipFires /\ DrawStep /\ TypeOf(Head(deck)) = "FLIP_THREE")
            => ScheduledFlips' = (ScheduledFlips - 1) + 3
       /\ (AutoFlipFires /\ TurnOpen) => DrawStep]_vars

(* C12: rejected draws are no-ops.  A draw request made while the turn is
   not active, or busted, or the hand holds 7 Number cards, or an auto-flip
   sequence is in progress changes nothing: hand, draw pile, discard pile,
   round score, turn flags, scores, active player index and the scheduled
   callbacks are as before. *)
C12_RejectedDrawNoOp ==
    [][(DrawCard /\ (\/ ~isTurnActive
                     \/ hasBusted
                     \/ NumberCardCount(drawnCards) >= MAX_HAND_SIZE
                     \/ isFlippingThree))
       => UNCHANGED <<drawnCards, deck, deckCount, discardPile, currentRoundScore,
                      isTurnActive, hasBusted, isFlippingThree, flipThreeCount,
                      players, currentPlayerIndex, winner, timers>>]_vars

\* a draw can be requested, cards are there to draw, and the request falls
\* into an auto-flip sequence
C12_Witness ==
    /\ ~ModalOpen
    /\ inputs < MaxInputs
    /\ isTurnActive /\ ~hasBusted
    /\ deckCount > 0
    /\ isFlippingThree
    /\ Pending("autoFlip")

\* the active player's total score (currentPlayerIndex is 0-based)
ActiveScore == players[currentPlayerIndex + 1].totalScore

(* C13: manual end turn.  A request to end the turn is accepted only while
   the turn is active and the hand is non-empty; with an empty hand or a
   turn that is not active it changes nothing.  An accepted request makes
   the turn terminal, leaves the round score, the hand and the scores as
   they are and schedules the finalization; until the finalization runs no
   step changes the round score, the bust flag or the active player or
   opens a modal, and the finalization awards the active player exactly
   that round score. *)
C13_ManualEndTurn ==
    [][/\ EndTurn =>
            IF isTurnActive /\ drawnCards # <<>>
            THEN /\ ~isTurnActive'
                 /\ ~hasBusted'
                 /\ Pending("nextPlayerPopup")'
                 /\ UNCHANGED <<currentRoundScore, drawnCards, deck, discardPile,
                                players, currentPlayerIndex>>
            ELSE UNCHANGED <<players, currentPlayerIndex, currentRoundScore,
                             drawnCards, discardPile, deck, deckCount,
                             isTurnActive, hasBusted, isFlippingThree,
                             flipThreeCount, winner, timers>>
       /\ (~ModalOpen /\ ~isTurnActive /\ ~NextPlayerPopupFires)
            => /\ UNCHANGED <<currentRoundScore, hasBusted, currentPlayerIndex,
                              players, isTurnActive>>
               /\ ~ModalOpen'
       /\ (~ModalOpen /\ ~isTurnActive /\ ~hasBusted /\ NextPlayerPopupFires)
            => players'[currentPlayerIndex + 1].totalScore
                   = ActiveScore + currentRoundScore]_vars

\* a turn that was ended by request with points in hand is about to be
\* finalized
C13_Witness ==
    /\ ~ModalOpen
    /\ ~isTurnActive /\ ~hasBusted
    /\ NumberCardCount(drawnCards) < MAX_HAND_SIZE
    /\ \A k \in 1..Len(drawnCards) : TypeOf(drawnCards[k]) # "FREEZE"
    /\ currentRoundScore > 0
    /\ Due("nextPlayerPopup")

(* C14: roster bounds.  After any sequence of additions and removals the
   roster holds at least 3 and at most 18 players; an addition to a roster
   of 18 and a removal from a roster of 3 leave the roster unchanged. *)
C14_RosterBounds ==
    [][/\ Len(players') >= MIN_PLAYERS /\ Len(players') <= MAX_PLAYERS
       /\ (AddPlayer /\ Len(players) = MAX_PLAYERS) => players' = players
       /\ (RemovePlayer /\ Len(players) = MIN_PLAYERS) => players' = players
       /\ (AddPlayer /\ Len(players) < MAX_PLAYERS)
            => Len(players') = Len(players) + 1
       /\ (RemovePlayer /\ Len(players) > MIN_PLAYERS)
            => Len(players') = Len(players) - 1]_vars

\* the roster is full after an addition, with inputs left to add again
C14_Witness ==
    /\ showStartModal
    /\ Len(players) = MAX_PLAYERS
    /\ inputs > 0 /\ inputs < MaxInputs

(* C15: start of a match with a roster outside 3..18.  A start request made
   with fewer than 3 or more than 18 players is rejected and changes
   nothing; with 3 to 18 players it is accepted and closes the start
   modal. *)
C15_StartRejected ==
    [][StartGame =>
          IF Len(players) < MIN_PLAYERS \/ Len(players) > MAX_PLAYERS
          THEN UNCHANGED vars
          ELSE ~showStartModal']_vars

\* the start modal is open on a roster of two players and a start can be
\* requested
C15_Witness ==
    /\ showStartModal
    /\ Len(players) = MIN_PLAYERS - 1
    /\ inputs < MaxInputs

\* an accepted start of a match: startGame past its guard is the one place
\* that closes the start modal
StartAccepted == showStartModal /\ ~showStartModal'

(* C16: start of a match.  An accepted start, from any prior state, yields:
   every player's total score 0, a fresh draw pile of the 94 cards, an empty
   discard pile, an empty hand, round score 0, the turn active and not
   busted, no auto-flip in progress (the flags cleared and no automatic
   draw scheduled), and active player index 0. *)
C16_StartState ==
    [][StartAccepted =>
          /\ \A k \in 1..Len(players') : players'[k].totalScore = 0
          /\ Len(deck') = DECK_SIZE /\ {deck'[k] : k \in 1..Len(deck')} = CardIds
          /\ deckCount' = DECK_SIZE
          /\ discardPile' = <<>>
          /\ drawnCards' = <<>>
          /\ currentRoundScore' = 0
          /\ isTurnActive' /\ ~hasBusted'
          /\ ~isFlippingThree' /\ flipThreeCount' = 0
          /\ ~Pending("autoFlip")'
          /\ currentPlayerIndex' = 0]_vars

(* C17: return to start.  returnToStart clears the winner, sets every
   player's total score to 0 and resets the draw pile (the 94 cards), the
   discard pile (empty) and the turn state (empty hand, active, round score
   0); the roster keeps the same players in the same order under the same
   names. *)
C17_ReturnToStart ==
    [][ReturnToStart =>
          /\ winner' = <<>>
          /\ \A k \in 1..Len(players') : players'[k].totalScore = 0
          /\ Len(deck') = DECK_SIZE /\ {deck'[k] : k \in 1..Len(deck')} = CardIds
          /\ deckCount' = DECK_SIZE
          /\ discardPile' = <<>>
          /\ drawnCards' = <<>>
          /\ isTurnActive' /\ ~hasBusted'
          /\ currentRoundScore' = 0
          /\ Len(players') = Len(players)
          /\ \A k \in 1..Len(players) : players'[k].name = players[k].name]_vars

\* the start modal is open again after a match: nothing is left of the
\* match but a callback it scheduled
C17_Witness ==
    /\ showStartModal /\ ~showEndModal
    /\ winner = <<>>
    /\ \A k \in 1..Len(players) : players[k].totalScore = 0
    /\ drawnCards = <<>> /\ discardPile = <<>>
    /\ deckCount = DECK_SIZE
    /\ timers # <<>>

(* C18: finalization clears the hand into the discard pile.  A draw that
   busts puts the bust card into the hand; the finalization of a turn moves
   every card of the hand, the bust card included, to the discard pile,
   leaves the hand empty and resets the turn to active with round score 0
   and not busted.  After two Number cards of the same value drawn without
   a SECOND_CHANCE both are in the discard pile and nothing was awarded. *)
C18_FinalizationDiscardsHand ==
    [][/\ (DrawStep /\ ~hasBusted /\ hasBusted')
            => drawnCards' = Append(drawnCards, Head(deck))
       /\ NextPlayerPopupFires
            => /\ IsPermutation(discardPile', drawnCards \o discardPile)
               /\ drawnCards' = <<>>
               /\ isTurnActive' /\ ~hasBusted'
               /\ currentRoundScore' = 0
               /\ (hasBusted => TotalScores' = TotalScores)]_vars

\* after the finalization of a turn that drew two Number cards of the same
\* value: both are in the discard pile, the hand is empty, nobody has scored
C18_Witness ==
    /\ InMatch
    /\ drawnCards = <<>>
    /\ isTurnActive /\ ~hasBusted /\ currentRoundScore = 0
    /\ Len(discardPile) <= 3
    /\ DuplicateNumber(discardPile)
    /\ \A k \in 1..Len(players) : players[k].totalScore = 0

(* C19: finalization scores the active player and passes the turn.  Each
   finalization adds the awarded score (0 after a bust, the round score
   otherwise) to the total score of the player who was active and to nobody
   else, and sets the active player index to (index + 1) mod the roster
   size; every other player's total score, the names and the roster order
   are unchanged. *)
C19_FinalizationScoresActivePlayer ==
    [][NextPlayerPopupFires =>
          /\ Len(players') = Len(players)
          /\ \A k \in 1..Len(players) :
                /\ players'[k].name = players[k].name
                /\ players'[k].totalScore =
                      IF k = currentPlayerIndex + 1
                      THEN players[k].totalScore
                               + (IF hasBusted THEN 0 ELSE currentRoundScore)
                      ELSE players[k].totalScore
          /\ currentPlayerIndex' = (currentPlayerIndex + 1) % Len(players)]_vars

\* the turn has come round to the first player again: the last player of
\* the roster has scored, the first has not
C19_Witness ==
    /\ InMatch
    /\ currentPlayerIndex = 0
    /\ drawnCards = <<>> /\ isTurnActive
    /\ players[Len(players)].totalScore > 0
    /\ players[1].totalScore = 0

\* the values of the Number cards of a hand
NumberValues(hand) ==
    {ValueOf(hand[k]) : k \in {j \in 1..Len(hand) : TypeOf(hand[j]) = "NUMBER"}}

\* one card of every type and value of the deck: the first created
CardKinds ==
    {c \in CardIds :
        \A d \in CardIds :
            (TypeOf(d) = TypeOf(c) /\ ValueOf(d) = ValueOf(c)) => c <= d}

(* C20: bust test.  For every hand the program holds and every kind of card
   of the deck, checkBust is true if and only if the card is a Number card and the
   hand contains a Number card of the same value; for every ADDITION,
   MULTIPLIER, FREEZE, FLIP_THREE and SECOND_CHANCE card it is false
   whatever the hand contains. *)
C20_IsBust ==
    LET held == NumberValues(drawnCards)
    IN \A c \in CardKinds :
          /\ checkBust(drawnCards, c) <=> (TypeOf(c) = "NUMBER" /\ ValueOf(c) \in held)
          /\ TypeOf(c) \in {"ADDITION", "MULTIPLIER", "FREEZE", "FLIP_THREE",
                            "SECOND_CHANCE"}
                => ~checkBust(drawnCards, c)

\* a hand of Number cards and other cards, the next card of the draw pile a
\* Number card whose value the hand holds already
C20_Witness ==
    /\ InMatch /\ isTurnActive /\ ~hasBusted
    /\ deck # <<>>
    /\ NumberCardCount(drawnCards) > 0
    /\ NumberCardCount(drawnCards) < Len(drawnCards)
    /\ checkBust(drawnCards, Head(deck))

\* the next draw calls removeSecondChanceAndBustCard: the card on top of the
\* draw pile duplicates a Number card of a hand that holds a SECOND_CHANCE
SecondChanceCall ==
    /\ InMatch
    /\ deck # <<>>
    /\ checkBust(drawnCards, Head(deck))
    /\ hasSecondChance(drawnCards)

\* the position of the first SECOND_CHANCE card of a hand
FirstSecondChance(hand) ==
    CHOOSE k \in 1..Len(hand) :
        /\ TypeOf(hand[k]) = "SECOND_CHANCE"
        /\ \A j \in 1..(k - 1) : TypeOf(hand[j]) # "SECOND_CHANCE"

(* C21: second-chance removal.  Whenever the program calls
   removeSecondChanceAndBustCard (a hand holding at least one SECOND_CHANCE,
   the id of the bust card), the remaining hand is exactly 2 cards shorter
   than the hand, the first SECOND_CHANCE of the hand and the bust card are
   absent from it, the other cards are kept in their order, and the removed
   cards are that SECOND_CHANCE and the bust card. *)
C21_ResolveSecondChance ==
    SecondChanceCall =>
        LET hand == drawnCards
            bustCardId == Head(deck)
            r == removeSecondChanceAndBustCard(hand, bustCardId)
            first == FirstSecondChance(hand)
        IN /\ Len(r.remainingCards) = Len(hand) - 2
           /\ \A k \in 1..Len(r.remainingCards) :
                 r.remainingCards[k] # bustCardId /\ r.remainingCards[k] # hand[first]
           /\ r.remainingCards =
                 SelectSeq(hand, LAMBDA c : c # bustCardId /\ c # hand[first])
           /\ {r.removedCards[k] : k \in 1..Len(r.removedCards)}
                 = {hand[first], bustCardId}

\* the cards created by initializeDeck that have the given type and value
CountOf(type, value) ==
    Cardinality({c \in CardIds : TypeOf(c) = type /\ ValueOf(c) = value})

CountOfType(type) == Cardinality({c \in CardIds : TypeOf(c) = type})

\* what initializeDeck creates besides the Number cards' total
CardsCreated ==
    /\ CountOf("NUMBER", 0) = 1
    /\ \A v \in 1..12 : CountOf("NUMBER", v) = v
    /\ CountOfType("ADDITION") = 5
    /\ \A v \in {2, 4, 6, 8, 10} : CountOf("ADDITION", v) = 1
    /\ CountOfType("MULTIPLIER") = 1
    /\ CountOfType("FREEZE") = 3
    /\ CountOfType("FLIP_THREE") = 3
    /\ CountOfType("SECOND_CHANCE") = 3

\* the pile is a fresh deck: 94 cards, each created card once, of the
\* composition above with the given number of Number cards
FreshDeck(pile, numberCards) ==
    /\ Len(pile) = 94
    /\ {pile[k] : k \in 1..Len(pile)} = CardIds
    /\ Cardinality(CardIds) = Len(pile)
    /\ CountOfType("NUMBER") = numberCards
    /\ CardsCreated

(* C22, as stated: fresh deck.  After the construction of the deck service
   and after every reset (start of a match, return to start), whatever the
   draw pile held before, the draw pile holds exactly 94 cards with pairwise
   distinct ids: 78 Number cards (one 0 and v cards of each value v in
   1..12), one Addition card for each of +2, +4, +6, +8, +10, 1 Multiplier,
   3 Freeze, 3 FlipThree and 3 SecondChance. *)
C22_FreshDeckAsStated ==
    /\ showStartModal => FreshDeck(deck, 78)
    /\ [][(StartAccepted \/ ReturnToStart) => FreshDeck(deck', 78)]_vars

(* C22, amended: the same with 79 Number cards, which is what one 0 and v
   cards of each value v in 1..12 add up to and what makes the total 94. *)
C22_FreshDeck ==
    /\ showStartModal => FreshDeck(deck, 79)
    /\ [][(StartAccepted \/ ReturnToStart) => FreshDeck(deck', 79)]_vars

\* the start modal is open again on a fresh deck while a callback of the
\* finished match, whose draw pile was all but used up, is still scheduled
C22_Witness ==
    /\ showStartModal
    /\ timers # <<>>
    /\ FreshDeck(deck, 79)

(* C23: draw takes the front card.  A draw on a non-empty draw pile returns
   the front card, and afterwards the pile is the previous pile without its
   front card: the remaining count is smaller by exactly 1 and the order of
   the remaining cards is unchanged.  The card that enters the hand is the
   card that was in front. *)
C23_DrawTakesFront ==
    /\ [](deck # <<>> =>
             /\ serviceDraw(State).card = Head(deck)
             /\ serviceDraw(State).s.deck = Tail(deck)
             /\ serviceDraw(State).s.deckCount = Len(deck) - 1)
    /\ [][((DrawCard \/ AutoFlipFires) /\ deck' # deck)
            => /\ deck # <<>>
               /\ deck' = Tail(deck)
               /\ deckCount' = Len(deck) - 1
               /\ Len(drawnCards') > Len(drawnCards)
                    => drawnCards' = Append(drawnCards, Head(deck))]_vars

\* the first card of a match has been drawn from the full pile
C23_Witness ==
    /\ InMatch
    /\ Len(deck) = DECK_SIZE - 1
    /\ deckCount = DECK_SIZE - 1
    /\ Len(drawnCards) = 1
    /\ discardPile = <<>>

(* C24: draw on an empty pile.  A draw on an empty draw pile returns no card
   and leaves the pile empty; drawing all 94 cards of a fresh deck yields a
   remaining count of 0, and the 95th draw returns no card. *)
C24_DrawOnEmpty ==
    /\ [](deck = <<>> =>
             /\ serviceDraw(State).card = 0
             /\ serviceDraw(State).s.deck = <<>>
             /\ serviceDraw(State).s.deckCount = 0)
    /\ [](inputs >= DECK_SIZE =>
             /\ deck = <<>> /\ deckCount = 0
             /\ Len(drawnCards) = DECK_SIZE)
    /\ [][(ServiceDrawCard /\ deck = <<>>)
            => UNCHANGED <<deck, deckCount, drawnCards>>]_vars

\* the 95th draw on a fresh deck has been made
C24_Witness ==
    /\ inputs = DECK_SIZE + 1
    /\ deck = <<>> /\ deckCount = 0
    /\ Len(drawnCards) = DECK_SIZE

(* C25: setDeck loads a permutation.  setDeck(cards), which the program
   calls with the discard pile when the reshuffle callback runs, replaces
   the draw pile by a permutation of cards: afterwards the remaining count
   is the number of cards, every card id occurs in the draw pile as often
   as in cards, and no card of the previous pile remains unless it is among
   cards; an empty list is accepted and gives an empty pile. *)
C25_SetDeckPermutes ==
    [][ReshuffleFires =>
          /\ Len(deck') = Len(discardPile)
          /\ deckCount' = Len(discardPile)
          /\ IsPermutation(deck', discardPile)
          /\ \A k \in 1..Len(deck) :
                Occurrences(discardPile, deck[k]) = 0
                    => Occurrences(deck', deck[k]) = 0
          /\ (discardPile = <<>>) => (deck' = <<>>)]_vars

\* after a reshuffle in a match under way: the pile holds what was
\* discarded, and not in the order in which it was discarded
C25_Witness ==
    /\ InMatch
    /\ discardPile = <<>>
    /\ ~Pending("reshuffle")
    /\ \E k \in 1..Len(players) : players[k].totalScore > 0
    /\ Len(deck) >= DECK_SIZE - Len(LateDeck)
    /\ \E k \in 1..(Len(deck) - 1) : deck[k] > deck[k + 1]

(* C26: hand limit with bonus.  Whenever a draw that does not bust, manual
   or automatic, brings the Number cards of the hand to 7, the turn becomes
   terminal and the round score, which the finalization awards, is (sum of
   the Number and Addition values, doubled if a Multiplier is held) + 15,
   however many other cards the hand holds. *)
C26_HandLimitBonus ==
    [][/\ (/\ DrawStep
            /\ ~hasBusted'
            /\ NumberCardCount(drawnCards) < MAX_HAND_SIZE
            /\ NumberCardCount(drawnCards') = MAX_HAND_SIZE)
            => /\ ~isTurnActive'
               /\ currentRoundScore' = ScoreLaw(drawnCards')
       /\ (/\ NextPlayerPopupFires
            /\ ~isTurnActive /\ ~hasBusted
            /\ NumberCardCount(drawnCards) = MAX_HAND_SIZE)
            => players'[currentPlayerIndex + 1].totalScore
                   = ActiveScore + ScoreLaw(drawnCards)]_vars

\* a duplicate Number is on top of the pile and the hand holds a SecondChance
MitigationStep ==
    /\ DrawStep
    /\ InMatch
    /\ deck # <<>>
    /\ checkBust(drawnCards, Head(deck))
    /\ hasSecondChance(drawnCards)
    /\ drawnCards' # drawnCards

\* C27: a Second-Chance mitigation leaves roundScore unchanged and equal to
\* the round score computed from the remaining hand; and in every state of a
\* match where the turn is active and not busted, roundScore equals the
\* round score computed from the hand.
C27_ScoreMatchesHand ==
    /\ []((InMatch /\ isTurnActive /\ ~hasBusted)
            => currentRoundScore = calculateRoundScore(drawnCards))
    /\ [][MitigationStep
            => /\ currentRoundScore' = currentRoundScore
               /\ currentRoundScore' = calculateRoundScore(drawnCards')]_vars

\* the turn is Busted, Frozen or HandLimitReached (or was ended by the
\* player) and has not been finalized yet
TurnTerminal ==
    /\ InMatch
    /\ ~showEndModal
    /\ \/ ~isTurnActive
       \/ hasBusted
       \/ NumberCardCount(drawnCards) >= MAX_HAND_SIZE

\* C28: once the turn is terminal, a draw still scheduled by an auto-flip
\* sequence (nested sequences included) that runs before the turn is
\* finalized takes no card from the draw pile and adds none to the hand.
C28_Truncation ==
    [][(AutoFlipFires /\ TurnTerminal)
        => /\ deck' = deck
           /\ deckCount' = deckCount
           /\ drawnCards' = drawnCards
           /\ discardPile' = discardPile
           /\ currentRoundScore' = currentRoundScore]_vars

\* the turn went bust during an auto-flip sequence, and the draw that was
\* still scheduled has run
C28_Witness ==
    /\ TurnTerminal
    /\ hasBusted
    /\ Len(drawnCards) = 4
    /\ TypeOf(drawnCards[1]) = "FLIP_THREE"
    /\ TypeOf(drawnCards[2]) = "FLIP_THREE"
    /\ ~Pending("autoFlip")
    /\ \E k \in 1..Len(timers) :
          timers[k].kind = "turnEndPopup" /\ timers[k].due < POPUP_DISPLAY_DURATION_MS

\* the last card of the hand is a Freeze card
Frozen == drawnCards # <<>> /\ TypeOf(drawnCards[Len(drawnCards)]) = "FREEZE"

(* C29: a draw of a Freeze card, manual or automatic, appends the card to the
   hand and makes the turn terminal without a bust; while the Freeze card is
   in the hand no card is added to it; and the finalization of that turn adds
   to the active player's total the round score of the hand, Freeze card
   included: (Numbers + Additions) doubled by a Multiplier, plus 15 if the
   hand holds 7 Number cards. *)
C29_Freeze ==
    [][/\ (DrawStep /\ TypeOf(Head(deck)) = "FREEZE")
          => /\ drawnCards' = Append(drawnCards, Head(deck))
             /\ ~isTurnActive'
             /\ hasBusted' = hasBusted
       /\ Frozen => (drawnCards' = drawnCards \/ drawnCards' = <<>>)
       /\ (NextPlayerPopupFires /\ Frozen /\ ~hasBusted)
          => players'[currentPlayerIndex + 1].totalScore
                = ActiveScore + ScoreLaw(drawnCards)]_vars

\* number of SecondChance cards in a hand
SecondChanceCount(hand) == Len(SelectType(hand, "SECOND_CHANCE"))

(* C30: one mitigation consumes exactly one SecondChance.  A draw of a Number
   whose value is already in a hand with k >= 1 SecondChance cards leaves
   k - 1 of them in the hand and does not bust the turn; the same draw into a
   hand without SecondChance cards busts the turn.  So after a mitigation a
   later duplicate is mitigated again when k - 1 >= 1 and busts when
   k - 1 = 0. *)
C30_OneSecondChancePerMitigation ==
    [][(DrawStep /\ InMatch /\ checkBust(drawnCards, Head(deck)))
        => IF SecondChanceCount(drawnCards) >= 1
           THEN /\ SecondChanceCount(drawnCards') = SecondChanceCount(drawnCards) - 1
                /\ ~hasBusted'
                /\ isTurnActive' = isTurnActive
           ELSE /\ hasBusted'
                /\ ~isTurnActive'
                /\ drawnCards' = Append(drawnCards, Head(deck))]_vars

\* a hand that held two SecondChance cards has had two duplicates mitigated
\* in the same turn and holds none now
C30_Witness ==
    /\ InMatch
    /\ isTurnActive
    /\ ~hasBusted
    /\ discardPile = <<92, 93>>
    /\ SecondChanceCount(drawnCards) = 0
    /\ Len(drawnCards) = 5
    /\ players[currentPlayerIndex + 1].totalScore = 0

\* a step that awards a score or moves the turn to another player
Finalizes == TotalScores' # TotalScores \/ currentPlayerIndex' # currentPlayerIndex

\* number of pending callbacks that lead to a finalization: the turn-end
\* notification, the bonus popup and the next-player popup
PendingFinalizations ==
    Len(SelectSeq(timers, LAMBDA t :
            t.kind \in {"turnEndPopup", "bonusPopup", "nextPlayerPopup"}))

(* C31: every turn that reaches a terminal state is eventually finalized, and
   it is finalized exactly once: a terminal turn of a match has exactly one
   finalization pending; the finalization of a terminal turn makes the next
   turn active, awards the final score to the active player only and advances
   the active player by one position; and no other step of a match awards a
   score or changes the active player. *)
C31_FinalizedOnce ==
    /\ (InMatch /\ ~isTurnActive) ~> isTurnActive
    /\ []((InMatch /\ ~isTurnActive) => PendingFinalizations = 1)
    /\ [][(NextPlayerPopupFires /\ ~isTurnActive)
            => /\ isTurnActive'
               /\ currentPlayerIndex' = (currentPlayerIndex + 1) % Len(players)
               /\ \A k \in 1..Len(players) :
                     players'[k].totalScore
                       = players[k].totalScore
                           + (IF k = currentPlayerIndex + 1 THEN finalScore(State) ELSE 0)]_vars
    /\ [][(InMatch /\ InMatch' /\ Finalizes) => NextPlayerPopupFires]_vars

\* a FlipThree card has been drawn in the current turn: the hand is emptied
\* at every finalization and reset, and no FlipThree card leaves it otherwise
FlipThreeInTurn == \E k \in 1..Len(drawnCards) : TypeOf(drawnCards[k]) = "FLIP_THREE"

(* C32: no auto-flip draw crosses a turn boundary.  An automatic draw takes a
   card from the draw pile only in a turn in which a FlipThree card has been
   drawn: after a finalization, a start or a return to the start modal, the
   draws scheduled before it take no card. *)
C32_NoDrawAcrossTurns ==
    [][(AutoFlipFires /\ deck' # deck) => FlipThreeInTurn]_vars

(* C33: the in-progress flag covers nested sequences.  In every state of a
   match in which the turn is active, a FlipThree card has been drawn in it
   and an automatic draw, of the outer or of a nested sequence, is still
   scheduled, isFlippingThree is true and canDrawCard is false. *)
C33_FlagCoversNested ==
    (InMatch /\ TurnOpen /\ FlipThreeInTurn /\ Pending("autoFlip"))
        => (isFlippingThree /\ ~canDrawCard(State))

(* C34: a reshuffle only ever replaces an empty draw pile.  Whenever the
   deferred reshuffle callback runs, also after a start or a return to the
   start modal has rebuilt the deck in between, the draw pile is empty, and
   every card that was in the draw pile or the discard pile is in the draw
   pile afterwards. *)
C34_ReshuffleReplacesEmptyPile ==
    [][ReshuffleFires
        => /\ deck = <<>>
           /\ deckCount = 0
           /\ \A k \in 1..Len(deck) : Occurrences(deck', deck[k]) = 1]_vars

----------------------------------------------------------------------------
(* The finalization as a function of the scores: finalizeTurnEnd applied to
   a frozen turn of three players.  At most one player has reached the
   winning score before the finalization (a finalization that runs after
   the win is the only way to a shared top score). *)

\* totals before the finalization
ScoreInputs == {0, WINNING_SCORE - 10, WINNING_SCORE}

\* frozen hands worth 10 and 0 points: a 10 or the 0 card, then a Freeze card
FrozenHands == {<<24, 86>>, <<79, 86>>}

InitFinalization ==
    /\ \E a, b, c \in ScoreInputs :
          /\ Cardinality({k \in 1..3 : <<a, b, c>>[k] >= WINNING_SCORE}) <= 1
          /\ players = ThreePlayers(<<a, b, c>>)
    /\ currentPlayerIndex \in 0..2
    /\ drawnCards \in FrozenHands
    /\ currentRoundScore = calculateRoundScore(drawnCards)
    /\ discardPile = <<>>
    /\ deck = SelectSeq([k \in 1..Len(InitialCards) |-> k],
                        LAMBDA c : \A k \in 1..Len(drawnCards) : drawnCards[k] # c)
    /\ deckCount = Len(deck)
    /\ isTurnActive = FALSE
    /\ hasBusted = FALSE
    /\ isFlippingThree = FALSE
    /\ flipThreeCount = 0
    /\ showStartModal = FALSE
    /\ showEndModal = (\E k \in 1..3 : players[k].totalScore >= WINNING_SCORE)
    /\ winner = SelectSeq(players, LAMBDA q : q.totalScore >= WINNING_SCORE)
    /\ timers = << Timer("nextPlayerPopup", 0, 0, 0, 0) >>
    /\ inputs = 0

FinalizationNext == NextPlayerPopupFires

FinalizationSpec == InitFinalization /\ [][FinalizationNext]_vars

\* the players who hold the highest total
TopPlayers(ps) == {k \in 1..Len(ps) : ps[k].totalScore = MaxScore(ps)}

\* the first and the last of a non-empty set of roster positions
FirstOf(S) == CHOOSE k \in S : \A j \in S : k <= j
LastOf(S) == CHOOSE k \in S : \A j \in S : j <= k

(* C35 as stated: when a finalization ends the match, the winner is the first
   in roster order of the players who hold the highest total. *)
C35_FirstTopPlayerWins ==
    [][(NextPlayerPopupFires /\ winner' # <<>>)
        => winner'[1] = players'[FirstOf(TopPlayers(players'))]]_vars

(* C35: when a finalization ends the match, the winner is one of the players
   who hold the highest total, and when two or more share it, the last of
   them in roster order. *)
C35_LastTopPlayerWins ==
    [][(NextPlayerPopupFires /\ winner' # <<>>)
        => winner'[1] = players'[LastOf(TopPlayers(players'))]]_vars

\* a finalization has ended the match with two players sharing the top score
C35_Witness ==
    /\ timers = <<>>
    /\ showEndModal
    /\ winner # <<>>
    /\ Cardinality(TopPlayers(players)) >= 2
    /\ MaxScore(players) >= WINNING_SCORE

\* the positions of the hand that hold a Number card of this value
NumberPositions(hand, value) ==
    {k \in 1..Len(hand) : TypeOf(hand[k]) = "NUMBER" /\ ValueOf(hand[k]) = value}

(* C36: in every state where the turn is not busted, the Number cards of the
   hand have pairwise distinct values; in a busted turn the last card of the
   hand is a Number card whose value occurs exactly twice in the hand, and
   every other value occurs at most once. *)
C36_DistinctNumbers ==
    /\ ~hasBusted
        => \A v \in 0..HIGHEST_NUMBER : Cardinality(NumberPositions(drawnCards, v)) <= 1
    /\ hasBusted
        => /\ drawnCards # <<>>
           /\ TypeOf(drawnCards[Len(drawnCards)]) = "NUMBER"
           /\ \A v \in 0..HIGHEST_NUMBER :
                 Cardinality(NumberPositions(drawnCards, v))
                    <= (IF v = ValueOf(drawnCards[Len(drawnCards)]) THEN 2 ELSE 1)
           /\ Cardinality(NumberPositions(drawnCards,
                                          ValueOf(drawnCards[Len(drawnCards)]))) = 2

\* a turn that held other Number cards has gone bust on a repeated value
C36_Witness ==
    /\ InMatch
    /\ hasBusted
    /\ NumberCardCount(drawnCards) >= 3

(* C37: in every state the hand holds at most 7 Number cards, and a manual
   or automatic draw attempted while the hand holds 7 Number cards takes no
   card from the draw pile and adds none to the hand. *)
C37_HandLimit ==
    /\ [](NumberCardCount(drawnCards) <= MAX_HAND_SIZE)
    /\ [][((DrawCard \/ AutoFlipFires) /\ NumberCardCount(drawnCards) >= MAX_HAND_SIZE)
            => UNCHANGED <<deck, deckCount, drawnCards>>]_vars

\* the hand reached 7 Number cards during an auto-flip sequence, and the
\* draws that were still scheduled have run
C37_Witness ==
    /\ InMatch
    /\ NumberCardCount(drawnCards) = MAX_HAND_SIZE
    /\ ~hasBusted
    /\ ~isTurnActive
    /\ ~Pending("autoFlip")
    /\ \E k \in 1..Len(timers) :
          timers[k].kind = "bonusPopup" /\ timers[k].due < POPUP_DISPLAY_DURATION_MS

(* C38: in every state deckCount equals the number of cards in the deck
   service's draw pile, so deckCount > 0 holds exactly when the service's
   drawCard would return a card. *)
C38_DeckCountMirrors ==
    /\ deckCount = Len(deck)
    /\ (deckCount > 0) <=> (deck # <<>> /\ Head(deck) \in CardIds)

\* the last four cards of the first pass are in the hand and the reshuffle
\* callback has loaded the ninety discarded cards
C38_Witness ==
    /\ InMatch
    /\ Len(drawnCards) = Len(LateDeck)
    /\ discardPile = <<>>
    /\ Len(deck) = Len(InitialCards) - Len(LateDeck)
    /\ deckCount = Len(deck)
    /\ ~Pending("reshuffle")
====
